---- MODULE Spec2Model ----
(***************************************************************************)
(* Model of the low-latency primitives of the exchange matching engine:    *)
(*   Common Files/lf_queue.h         LFQueue          (SPSC ring)          *)
(*   Common Files/mem_pool.h         MemPool          (object pool)        *)
(*   Common Files/latency_tracker.h  LatencyTracker   (histogram)          *)
(*   Common Files/nanosecond_timer.h NanosecondTimer  (TSC timer)          *)
(*   Common Files/performance_dashboard.h  PerformanceDashboard            *)
(* Every atomic load, store, exchange or fetch_add of the code is one      *)
(* step of the model; a thread's locals and its position in a function     *)
(* are part of the state.                                                  *)
(***************************************************************************)
EXTENDS Integers, Sequences, FiniteSets, TLC

VARIABLES
  \* ---- LFQueue<T> (lf_queue.h) ----
  store_,        \* std::vector<T> store_: cell index -> value
  write_pos_,    \* std::atomic<size_t> write_pos_
  read_pos_,     \* std::atomic<size_t> read_pos_
  p_pc,          \* producer thread: "idle" | "reserved" | "written"
  p_slot,        \* producer: index i of the slot &store_[i] it was handed
  c_pc,          \* consumer thread: "idle" | "peeked" | "read"
  c_slot,        \* consumer: what its last getNextToRead returned, the index
                 \* i of the slot &store_[i] or NULLP
  c_ok,          \* consumer: what its last updateReadIndex returned
  c_val,         \* consumer: the value it read from that slot
  p_ret,         \* what the last getNextToWriteTo returned (index or NULLP)
  pushed,        \* history: the values the producer wrote, in order; the first
                 \* write_pos_ of them are published
  slots,         \* history: the slot index each of those values was written to
  popped,        \* history: values read and then consumed by updateReadIndex
  s_ret,         \* what the last size() returned
  \* ---- MemPool<T> (mem_pool.h) ----
  is_free_,      \* ObjectBlock::is_free_ of every block of store_
  object_,       \* ObjectBlock::object_ of every block of store_
  next_free_,    \* std::atomic<size_t> next_free_
  a_pc,          \* per thread: "idle" | "loop" | "xchg" | "hint" | "new"
  a_retry,       \* per thread: allocate's local retry
  a_current,     \* per thread: allocate's local current
  a_arg,         \* per thread: the constructor argument of the call
  held,          \* per thread: the blocks returned to it and not yet deallocated
  \* ---- LatencyTracker (latency_tracker.h) ----
  buckets_,      \* std::array<LatencyBucket, NUM_BUCKETS>: the buckets that were
                 \* stored into, index -> [count_, sum_, min_, max_]; every
                 \* other bucket holds its constructor values
  total_operations_,  \* std::atomic<uint64_t> total_operations_
  total_latency_,     \* std::atomic<uint64_t> total_latency_
  h_pc,          \* per thread: its position in record_latency
  h_ns,          \* per thread: record_latency's argument latency_ns
  h_cur,         \* per thread: the local current_min / current_max
  recorded,      \* history: how often each value was passed to record_latency
                 \* since the last reset() returned
  r_pc,          \* the thread calling reset(): its position in it
  r_i,           \* reset's loop variable: the index of bucket
  resets,        \* history: the number of reset() calls that returned
  \* ---- NanosecondTimer (nanosecond_timer.h) ----
  tsc_frequency_ns_,  \* std::atomic<double>: the quotient cycles / wall_ns,
                      \* kept as the pair it was computed from
  calibrated_,   \* std::atomic<bool> calibrated_
  tsc,           \* the CPU's time stamp counter, read by rdtsc
  t_pc,          \* per thread: its position in now_ns / calibrate
  t_op,          \* per thread: the function it called
  t_start,       \* per thread: calibrate's local start_tsc
  t_tsc,         \* per thread: now_ns's local tsc
  t_last,        \* per thread: what its last now_ns returned (NONE: no call yet)
  t_sound,       \* history: every frequency stored so far was positive and finite
  \* ---- PerformanceDashboard (performance_dashboard.h) ----
  running_,      \* std::atomic<bool> running_
  reporter_thread_,   \* std::thread reporter_thread_: the thread it owns
                      \* (joinable), NOTHREAD when it owns none
  tasks,         \* the threads created by start() and not yet joined, in
                 \* order of creation: the position of each in the reporter
                 \* lambda
  terminated,    \* std::terminate() was called: the process is gone
  log_counter,   \* static uint64_t log_counter of publish_metrics
  metrics_,      \* PerformanceMetrics metrics_
  last_orders_count_,  \* std::atomic<uint64_t> last_orders_count_
  last_report_time_,   \* uint64_t last_report_time_
  d_pc,          \* the thread calling start() / stop(): its position in them
  d_ticks,       \* history: publish_metrics calls since the last start()
  d_emitted,     \* history: snapshots written since the last start()
  d_calls        \* history: record_latency calls since the last update of
                 \* the throughput

qvars == <<store_, write_pos_, read_pos_, p_pc, p_slot, c_pc, c_slot, c_ok,
           c_val, p_ret, pushed, slots, popped, s_ret>>

pvars == <<is_free_, object_, next_free_, a_pc, a_retry, a_current, a_arg,
           held>>

hvars == <<buckets_, total_operations_, total_latency_, h_pc, h_ns, h_cur,
           recorded, r_pc, r_i, resets>>

tvars == <<tsc_frequency_ns_, calibrated_, tsc, t_pc, t_op, t_start, t_tsc,
           t_last, t_sound>>

\* the dashboard without d_calls
dprog == <<running_, reporter_thread_, tasks, terminated, log_counter,
           metrics_, last_orders_count_, last_report_time_, d_pc, d_ticks,
           d_emitted>>

dvars == <<dprog, d_calls>>

vars == <<qvars, pvars, hvars, tvars, dvars>>

----------------------------------------------------------------------------
(* Bounds of the model *)

\* log2 of the ring's capacity (the constructor asserts a power of two)
QLogN == 2
\* the producer stops reserving once write_pos_ has reached this value
MaxPos == 7
\* the values a producer pushes are 1..NumVals
NumVals == 2
\* log2 of the pool's capacity (the constructor asserts a power of two)
PLogN == 1
\* record_latency is called at most this many times between two resets
MaxRecords == 4
\* reset is called at most this many times
MaxResets == 2
\* the time stamp counter stops at this value
MaxTsc == 3
\* a calibration measures a wall-clock interval of 0..MaxWall ns
MaxWall == 2
\* the reporter stops entering its loop body once log_counter has this value
MaxTicks == 105
\* start() and stop() are called only while log_counter is at most this value
MaxCallAt == 3
\* next to the publisher, record_latency is called at most this many times
\* between two resets
MaxOrders == 2

----------------------------------------------------------------------------
(* Helpers shared by the components *)

RECURSIVE Pow2(_)
Pow2(k) == IF k = 0 THEN 1 ELSE 2 * Pow2(k - 1)

\* the bitwise AND of two naturals, bit by bit
RECURSIVE BitAnd(_, _)
BitAnd(a, b) ==
  IF a = 0 \/ b = 0 THEN 0
  ELSE (a % 2) * (b % 2) + 2 * BitAnd(a \div 2, b \div 2)

\* the null pointer
NULLP == -1

IsPrefix(s, t) == Len(s) <= Len(t) /\ s = SubSeq(t, 1, Len(s))

----------------------------------------------------------------------------
(* LFQueue *)

\* store_.size()
QN == Pow2(QLogN)
QVal == 1 .. NumVals

\* LFQueue(num_elems): store_(num_elems, T()), both positions 0
QInit ==
  /\ store_ = [i \in 0 .. QN - 1 |-> 0]
  /\ write_pos_ = 0
  /\ read_pos_ = 0
  /\ p_pc = "idle" /\ p_slot = NULLP /\ p_ret = NULLP
  /\ c_pc = "idle" /\ c_slot = NULLP /\ c_ok = FALSE /\ c_val = 0
  /\ pushed = <<>> /\ slots = <<>> /\ popped = <<>>
  /\ s_ret = 0

\* &store_[i] is an element of the vector only for i < store_.size()
InStore(i) == i \in DOMAIN store_

\* faulty variant: the position itself is taken for the next one
NextWrite_NoAdvance(current_write) == BitAnd(current_write, QN - 1)

\* next_write = (current_write + 1) & (store_.size() - 1)
NextWrite(current_write) == BitAnd(current_write + 1, QN - 1)

\* getNextToWriteTo: the index of the slot returned, NULLP when the queue
\* reports full
getNextToWriteTo ==
  LET current_write == write_pos_
      next_write == NextWrite(current_write)
  IN  IF next_write = read_pos_ THEN NULLP ELSE current_write

\* getNextToRead: the index of the slot returned, NULLP when the queue
\* reports empty
getNextToRead ==
  LET current_read == read_pos_
  IN  IF current_read = write_pos_ THEN NULLP ELSE current_read

\* faulty variant: masked with the capacity itself
size_WrongMask == BitAnd(write_pos_ - read_pos_, QN)

\* size()
size == BitAnd(write_pos_ - read_pos_, QN - 1)

\* producer: auto *slot = queue.getNextToWriteTo()
ReserveWrite ==
  /\ p_pc = "idle"
  /\ write_pos_ < MaxPos
  /\ p_ret' = getNextToWriteTo
  /\ IF getNextToWriteTo = NULLP
       THEN UNCHANGED <<p_pc, p_slot>>
       ELSE p_pc' = "reserved" /\ p_slot' = getNextToWriteTo
  /\ UNCHANGED <<store_, write_pos_, read_pos_, c_pc, c_slot, c_ok, c_val,
                 pushed, slots, popped, s_ret>>

\* producer: *slot = v.  store_[i] with i >= size() is outside the vector's
\* elements: the write lands in memory that is not part of the ring.
WriteSlot ==
  /\ p_pc = "reserved"
  /\ \E v \in QVal :
       /\ store_' = IF InStore(p_slot) THEN [store_ EXCEPT ![p_slot] = v]
                                        ELSE store_
       /\ pushed' = Append(pushed, v)
       /\ slots' = Append(slots, p_slot)
  /\ p_pc' = "written"
  /\ UNCHANGED <<write_pos_, read_pos_, p_slot, p_ret, c_pc, c_slot, c_ok,
                 c_val, popped, s_ret>>

\* updateWriteIndex: write_pos_.fetch_add(1)
updateWriteIndex ==
  /\ p_pc = "written"
  /\ write_pos_' = write_pos_ + 1
  /\ p_pc' = "idle"
  /\ UNCHANGED <<store_, read_pos_, p_slot, p_ret, c_pc, c_slot, c_ok,
                 c_val, pushed, slots, popped, s_ret>>

\* consumer: const auto *slot = queue.getNextToRead(); with nullptr it has
\* nothing to read
PeekRead ==
  /\ c_pc = "idle"
  /\ c_slot' = getNextToRead
  /\ c_pc' = IF getNextToRead = NULLP THEN "idle" ELSE "peeked"
  /\ UNCHANGED <<store_, write_pos_, read_pos_, p_pc, p_slot, p_ret, c_ok,
                 c_val, pushed, slots, popped, s_ret>>

\* consumer: v = *slot.  Reading store_[i] with i >= size() reads memory that
\* is not part of the ring: any value may come back.
ReadSlot ==
  /\ c_pc = "peeked"
  /\ IF InStore(c_slot) THEN c_val' = store_[c_slot]
                        ELSE c_val' \in QVal \cup {0}
  /\ c_pc' = "read"
  /\ UNCHANGED <<store_, write_pos_, read_pos_, p_pc, p_slot, p_ret, c_slot,
                 c_ok, pushed, slots, popped, s_ret>>

\* faulty variant: updateReadIndex without its emptiness test
NothingToRead_Unchecked(current_read) == FALSE

\* updateReadIndex: if (current_read == write_pos_.load()) return false
NothingToRead(current_read) == current_read = write_pos_

\* updateReadIndex, called after a read or with nothing read: the emptiness
\* test, then read_pos_.fetch_add(1).  popped takes the value only if the
\* consumer has read it.
updateReadIndex ==
  /\ c_pc \in {"idle", "read"}
  /\ LET current_read == read_pos_
     IN  IF NothingToRead(current_read)
           THEN c_ok' = FALSE /\ UNCHANGED <<read_pos_, popped>>
           ELSE /\ c_ok' = TRUE
                /\ read_pos_' = read_pos_ + 1
                /\ popped' = IF c_pc = "read" THEN Append(popped, c_val)
                                              ELSE popped
  /\ c_pc' = "idle"
  /\ UNCHANGED <<store_, write_pos_, p_pc, p_slot, p_ret, c_slot, c_val,
                 pushed, slots, s_ret>>

\* size(), called by the producer or by the consumer between two of its
\* other calls.  One of the two positions it loads is the caller's own, which
\* no other thread changes, so the call takes effect at its load of the
\* other one.
SizeCall ==
  /\ s_ret' = size
  /\ UNCHANGED <<store_, write_pos_, read_pos_, p_pc, p_slot, p_ret, c_pc,
                 c_slot, c_ok, c_val, pushed, slots, popped>>

----------------------------------------------------------------------------
(* MemPool *)

\* store_.size()
PN == Pow2(PLogN)
Blocks == 0 .. PN - 1
PThreads == {"t1", "t2"}
\* the constructor arguments passed to allocate (0 is the default-constructed T)
Args == {1}

\* the retry budget of allocate: for (int retry = 0; retry < 1000; ++retry)
MAX_RETRY == 1000

\* MemPool(num_elems): every block free, objects default-constructed
PInit ==
  /\ is_free_ = [b \in Blocks |-> TRUE]
  /\ object_ = [b \in Blocks |-> 0]
  /\ next_free_ = 0
  /\ a_pc = [t \in PThreads |-> "idle"]
  /\ a_retry = [t \in PThreads |-> 0]
  /\ a_current = [t \in PThreads |-> 0]
  /\ a_arg = [t \in PThreads |-> 0]
  /\ held = [t \in PThreads |-> {}]

\* faulty variant: the block is taken without looking at what exchange returned
ExchangeFalse_Unchecked(b) == TRUE

\* the value store_[b].is_free_.exchange(false) returns
ExchangeFalse(b) == is_free_[b]

\* faulty variant: the hint is stored back without the + 1
NextHint_Stuck(current) == BitAnd(current, PN - 1)

\* the value allocate stores into next_free_ after claiming block current
NextHint(current) == BitAnd(current + 1, PN - 1)

\* a caller enters allocate(arg): int retry = 0
AllocCall(t) ==
  /\ a_pc[t] = "idle"
  /\ \E arg \in Args : a_arg' = [a_arg EXCEPT ![t] = arg]
  /\ a_retry' = [a_retry EXCEPT ![t] = 0]
  /\ a_pc' = [a_pc EXCEPT ![t] = "loop"]
  /\ UNCHANGED <<is_free_, object_, next_free_, a_current, held>>

\* loop head with retry < 1000: current = next_free_.load()
AllocLoad(t) ==
  /\ a_pc[t] = "loop"
  /\ a_retry[t] < MAX_RETRY
  /\ a_current' = [a_current EXCEPT ![t] = next_free_]
  /\ a_pc' = [a_pc EXCEPT ![t] = "xchg"]
  /\ UNCHANGED <<is_free_, object_, next_free_, a_retry, a_arg, held>>

\* store_[current].is_free_.exchange(false): on true the block is claimed
\* (retry is not read again on that path: the model zeroes it), on false the
\* loop goes round (++retry) and current is loaded again
AllocExchange(t) ==
  /\ a_pc[t] = "xchg"
  /\ is_free_' = [is_free_ EXCEPT ![a_current[t]] = FALSE]
  /\ IF ExchangeFalse(a_current[t])
       THEN /\ a_pc' = [a_pc EXCEPT ![t] = "hint"]
            /\ a_retry' = [a_retry EXCEPT ![t] = 0]
       ELSE /\ a_pc' = [a_pc EXCEPT ![t] = "loop"]
            /\ a_retry' = [a_retry EXCEPT ![t] = @ + 1]
  /\ UNCHANGED <<object_, next_free_, a_current, a_arg, held>>

\* next_free_.store(next)
AllocStoreHint(t) ==
  /\ a_pc[t] = "hint"
  /\ next_free_' = NextHint(a_current[t])
  /\ a_pc' = [a_pc EXCEPT ![t] = "new"]
  /\ UNCHANGED <<is_free_, object_, a_retry, a_current, a_arg, held>>

\* ret = new(ret) T(args...); return ret: the caller now holds the block
\* (the call's locals end with it)
AllocReturn(t) ==
  /\ a_pc[t] = "new"
  /\ object_' = [object_ EXCEPT ![a_current[t]] = a_arg[t]]
  /\ held' = [held EXCEPT ![t] = @ \cup {a_current[t]}]
  /\ a_pc' = [a_pc EXCEPT ![t] = "idle"]
  /\ a_current' = [a_current EXCEPT ![t] = 0]
  /\ a_arg' = [a_arg EXCEPT ![t] = 0]
  /\ UNCHANGED <<is_free_, next_free_, a_retry>>

\* loop exit with retry = 1000: return nullptr, the caller holds nothing new
\* (the call's locals end with it)
AllocExhausted(t) ==
  /\ a_pc[t] = "loop"
  /\ a_retry[t] >= MAX_RETRY
  /\ a_retry' = [a_retry EXCEPT ![t] = 0]
  /\ a_current' = [a_current EXCEPT ![t] = 0]
  /\ a_arg' = [a_arg EXCEPT ![t] = 0]
  /\ a_pc' = [a_pc EXCEPT ![t] = "idle"]
  /\ UNCHANGED <<is_free_, object_, next_free_, held>>

\* faulty variant: deallocate forgets the store into is_free_
DeallocFlags_NoStore(b) == is_free_

\* what deallocate(&store_[b].object_) does to the free flags
DeallocFlags(b) == [is_free_ EXCEPT ![b] = TRUE]

\* deallocate(elem): the holder t returns block b
deallocate(t, b) ==
  /\ a_pc[t] = "idle"
  /\ b \in held[t]
  /\ b \in Blocks
  /\ is_free_' = DeallocFlags(b)
  /\ held' = [held EXCEPT ![t] = @ \ {b}]
  /\ UNCHANGED <<object_, next_free_, a_pc, a_retry, a_current, a_arg>>



----------------------------------------------------------------------------
(* LatencyTracker *)

NUM_BUCKETS == 1000
\* the width of a bucket in ns: latency_ns / 1000
BUCKET_NS == 1000
\* UINT64_MAX, the initial min_ of a bucket.  It is only ever compared with
\* latencies; the model writes the largest integer TLC represents for it, and
\* every latency of the model is smaller.
UINT64_MAX == 2147483647

HThreads == {"w1", "w2"}
\* the latencies passed to record_latency, in ns
Lats == {500, 1500, 998999, 999000, 1000001}
\* the percentiles asked for, in tenths of a percent (990 is 99.0, 999 is 99.9)
Pcts == {0, 1, 500, 990, 999, 1000}

\* LatencyBucket's member initializers
NewBucket == [count_ |-> 0, sum_ |-> 0, min_ |-> UINT64_MAX, max_ |-> 0]

\* buckets_[b]
Bucket(b) == IF b \in DOMAIN buckets_ THEN buckets_[b] ELSE NewBucket

\* buckets_ after a store v into field f of buckets_[b]
StoreField(b, f, v) ==
  [c \in DOMAIN buckets_ \cup {b} |->
     IF c = b THEN [Bucket(b) EXCEPT ![f] = v] ELSE buckets_[c]]

\* LatencyTracker() = default
HInit ==
  /\ buckets_ = <<>>
  /\ total_operations_ = 0
  /\ total_latency_ = 0
  /\ h_pc = [t \in HThreads |-> "idle"]
  /\ h_ns = [t \in HThreads |-> 0]
  /\ h_cur = [t \in HThreads |-> 0]
  /\ recorded = [v \in Lats |-> 0]
  /\ r_pc = "idle"
  /\ r_i = 0
  /\ resets = 0

MinOf(a, b) == IF a <= b THEN a ELSE b

\* faulty variant: the index is not clamped to the last bucket
BucketIndex_Unclamped(latency_ns) == latency_ns \div BUCKET_NS

\* std::min(latency_ns / 1000, NUM_BUCKETS - 1)
BucketIndex(latency_ns) == MinOf(latency_ns \div BUCKET_NS, NUM_BUCKETS - 1)

\* faulty variant: a store of the operand in place of the fetch_add
FetchAdd_Store(old, delta) == delta

\* the value an atomic fetch_add(delta) leaves in a counter holding old
FetchAdd(old, delta) == old + delta

RECURSIVE BagSize(_, _)
BagSize(bag, S) ==
  IF S = {} THEN 0
  ELSE LET v == CHOOSE x \in S : TRUE IN bag[v] + BagSize(bag, S \ {v})

RECURSIVE BagSum(_, _)
BagSum(bag, S) ==
  IF S = {} THEN 0
  ELSE LET v == CHOOSE x \in S : TRUE IN v * bag[v] + BagSum(bag, S \ {v})

\* a thread enters LatencyTracker::record_latency(latency_ns)
RecordCall(t) ==
  /\ h_pc[t] = "idle"
  /\ BagSize(recorded, Lats) < MaxRecords
  /\ \E ns \in Lats :
       /\ h_ns' = [h_ns EXCEPT ![t] = ns]
       /\ recorded' = [recorded EXCEPT ![ns] = @ + 1]
  /\ h_pc' = [h_pc EXCEPT ![t] = "count"]
  /\ UNCHANGED <<buckets_, total_operations_, total_latency_, h_cur>>
  /\ UNCHANGED <<r_pc, r_i, resets>>

\* LatencyBucket::record_latency: count_.fetch_add(1)
BucketCount(t) ==
  /\ h_pc[t] = "count"
  /\ LET b == BucketIndex(h_ns[t])
     IN  buckets_' = StoreField(b, "count_", FetchAdd(Bucket(b).count_, 1))
  /\ h_pc' = [h_pc EXCEPT ![t] = "sum"]
  /\ UNCHANGED <<total_operations_, total_latency_, h_ns, h_cur, recorded>>
  /\ UNCHANGED <<r_pc, r_i, resets>>

\* LatencyBucket::record_latency: sum_.fetch_add(latency_ns)
BucketSum(t) ==
  /\ h_pc[t] = "sum"
  /\ LET b == BucketIndex(h_ns[t])
     IN  buckets_' = StoreField(b, "sum_", FetchAdd(Bucket(b).sum_, h_ns[t]))
  /\ h_pc' = [h_pc EXCEPT ![t] = "min_load"]
  /\ UNCHANGED <<total_operations_, total_latency_, h_ns, h_cur, recorded>>
  /\ UNCHANGED <<r_pc, r_i, resets>>

\* current_min = min_.load()
BucketMinLoad(t) ==
  /\ h_pc[t] = "min_load"
  /\ h_cur' = [h_cur EXCEPT ![t] = Bucket(BucketIndex(h_ns[t])).min_]
  /\ h_pc' = [h_pc EXCEPT ![t] = "min_cas"]
  /\ UNCHANGED <<buckets_, total_operations_, total_latency_, h_ns, recorded>>
  /\ UNCHANGED <<r_pc, r_i, resets>>

\* while (latency_ns < current_min && !min_.compare_exchange_weak(current_min,
\* latency_ns)) {}: one evaluation of the loop condition.  A failed exchange
\* loads min_ into current_min.
BucketMinCas(t) ==
  /\ h_pc[t] = "min_cas"
  /\ LET b == BucketIndex(h_ns[t])
     IN  IF h_ns[t] < h_cur[t]
           THEN IF Bucket(b).min_ = h_cur[t]
                  THEN /\ buckets_' = StoreField(b, "min_", h_ns[t])
                       /\ h_pc' = [h_pc EXCEPT ![t] = "max_load"]
                       /\ h_cur' = [h_cur EXCEPT ![t] = 0]
                  ELSE /\ h_cur' = [h_cur EXCEPT ![t] = Bucket(b).min_]
                       /\ UNCHANGED <<buckets_, h_pc>>
           ELSE /\ h_pc' = [h_pc EXCEPT ![t] = "max_load"]
                /\ h_cur' = [h_cur EXCEPT ![t] = 0]
                /\ UNCHANGED buckets_
  /\ UNCHANGED <<total_operations_, total_latency_, h_ns, recorded>>
  /\ UNCHANGED <<r_pc, r_i, resets>>

\* current_max = max_.load()
BucketMaxLoad(t) ==
  /\ h_pc[t] = "max_load"
  /\ h_cur' = [h_cur EXCEPT ![t] = Bucket(BucketIndex(h_ns[t])).max_]
  /\ h_pc' = [h_pc EXCEPT ![t] = "max_cas"]
  /\ UNCHANGED <<buckets_, total_operations_, total_latency_, h_ns, recorded>>
  /\ UNCHANGED <<r_pc, r_i, resets>>

\* while (latency_ns > current_max && !max_.compare_exchange_weak(current_max,
\* latency_ns)) {}: one evaluation of the loop condition
BucketMaxCas(t) ==
  /\ h_pc[t] = "max_cas"
  /\ LET b == BucketIndex(h_ns[t])
     IN  IF h_ns[t] > h_cur[t]
           THEN IF Bucket(b).max_ = h_cur[t]
                  THEN /\ buckets_' = StoreField(b, "max_", h_ns[t])
                       /\ h_pc' = [h_pc EXCEPT ![t] = "total_ops"]
                       /\ h_cur' = [h_cur EXCEPT ![t] = 0]
                  ELSE /\ h_cur' = [h_cur EXCEPT ![t] = Bucket(b).max_]
                       /\ UNCHANGED <<buckets_, h_pc>>
           ELSE /\ h_pc' = [h_pc EXCEPT ![t] = "total_ops"]
                /\ h_cur' = [h_cur EXCEPT ![t] = 0]
                /\ UNCHANGED buckets_
  /\ UNCHANGED <<total_operations_, total_latency_, h_ns, recorded>>
  /\ UNCHANGED <<r_pc, r_i, resets>>

\* total_operations_.fetch_add(1)
TotalOps(t) ==
  /\ h_pc[t] = "total_ops"
  /\ total_operations_' = FetchAdd(total_operations_, 1)
  /\ h_pc' = [h_pc EXCEPT ![t] = "total_lat"]
  /\ UNCHANGED <<buckets_, total_latency_, h_ns, h_cur, recorded>>
  /\ UNCHANGED <<r_pc, r_i, resets>>

\* total_latency_.fetch_add(latency_ns); return
TotalLatency(t) ==
  /\ h_pc[t] = "total_lat"
  /\ total_latency_' = FetchAdd(total_latency_, h_ns[t])
  /\ h_pc' = [h_pc EXCEPT ![t] = "idle"]
  /\ h_ns' = [h_ns EXCEPT ![t] = 0]
  /\ UNCHANGED <<buckets_, total_operations_, h_cur, recorded>>
  /\ UNCHANGED <<r_pc, r_i, resets>>

\* the buckets a record_latency of the model stores into
RBuckets == {BucketIndex(v) : v \in Lats}

\* the next bucket after b of reset's loop, NUM_BUCKETS at its end.  The
\* buckets that no record_latency of the model stores into hold their
\* constructor values throughout and reset stores the same values: the loop
\* passes them without a change to the state.
NextBucket(b) ==
  LET later == {c \in RBuckets : c > b}
  IN  IF later = {} THEN NUM_BUCKETS
      ELSE CHOOSE c \in later : \A d \in later : c <= d

\* the order of the four stores of reset into a bucket
NextField(f) ==
  CASE f = "count_" -> "sum_" [] f = "sum_" -> "min_" [] f = "min_" -> "max_"
    [] OTHER -> "count_"

\* a thread enters LatencyTracker::reset()
ResetCall ==
  /\ r_pc = "idle"
  /\ resets < MaxResets
  /\ r_pc' = "count_"
  /\ r_i' = NextBucket(-1)
  /\ UNCHANGED <<buckets_, total_operations_, total_latency_, h_pc, h_ns,
                 h_cur, recorded, resets>>

\* faulty variant: min_ is zeroed like the other fields
ResetValue_Zero(f) == 0

\* the value reset stores into field f of a bucket
ResetValue(f) == IF f = "min_" THEN UINT64_MAX ELSE 0

\* for (auto& bucket : buckets_): one of bucket.count_.store(0),
\* bucket.sum_.store(0), bucket.min_.store(UINT64_MAX), bucket.max_.store(0)
ResetField ==
  /\ r_pc \in {"count_", "sum_", "min_", "max_"}
  /\ buckets_' = StoreField(r_i, r_pc, ResetValue(r_pc))
  /\ IF r_pc = "max_"
       THEN /\ r_i' = NextBucket(r_i)
            /\ r_pc' = IF NextBucket(r_i) = NUM_BUCKETS THEN "total_ops"
                                                        ELSE "count_"
       ELSE r_pc' = NextField(r_pc) /\ UNCHANGED r_i
  /\ UNCHANGED <<total_operations_, total_latency_, h_pc, h_ns, h_cur,
                 recorded, resets>>

\* total_operations_.store(0)
ResetTotalOps ==
  /\ r_pc = "total_ops"
  /\ total_operations_' = 0
  /\ r_pc' = "total_lat"
  /\ UNCHANGED <<buckets_, total_latency_, h_pc, h_ns, h_cur, recorded, r_i,
                 resets>>

\* total_latency_.store(0); return
ResetTotalLatency ==
  /\ r_pc = "total_lat"
  /\ total_latency_' = 0
  /\ r_pc' = "idle"
  /\ r_i' = 0
  /\ resets' = resets + 1
  /\ recorded' = [v \in Lats |-> 0]
  /\ UNCHANGED <<buckets_, total_operations_, h_pc, h_ns, h_cur>>

\* get_total_operations()
get_total_operations == total_operations_

\* get_average_latency(): ops > 0 ? total / ops : 0
get_average_latency ==
  LET ops == total_operations_
      total == total_latency_
  IN  IF ops > 0 THEN total \div ops ELSE 0

MaxOf(a, b) == IF a >= b THEN a ELSE b

\* the loops of get_min_latency and get_max_latency over the buckets of B,
\* started with acc: a bucket whose count_ is 0 is skipped.  A bucket that
\* was never stored into has count_ 0, so B need only hold the others.
RECURSIVE MinLoop(_, _)
MinLoop(B, acc) ==
  IF B = {} THEN acc
  ELSE LET b == CHOOSE x \in B : TRUE
           next == IF buckets_[b].count_ > 0
                     THEN MinOf(acc, buckets_[b].min_) ELSE acc
       IN  MinLoop(B \ {b}, next)

RECURSIVE MaxLoop(_, _)
MaxLoop(B, acc) ==
  IF B = {} THEN acc
  ELSE LET b == CHOOSE x \in B : TRUE
           next == IF buckets_[b].count_ > 0
                     THEN MaxOf(acc, buckets_[b].max_) ELSE acc
       IN  MaxLoop(B \ {b}, next)

\* faulty variant: the initial value of the loop is returned as it is
MinResult_Raw(min_latency) == min_latency

\* return min_latency == UINT64_MAX ? 0 : min_latency
MinResult(min_latency) ==
  IF min_latency = UINT64_MAX THEN 0 ELSE min_latency

\* get_min_latency()
get_min_latency == MinResult(MinLoop(DOMAIN buckets_, UINT64_MAX))

\* get_max_latency()
get_max_latency == MaxLoop(DOMAIN buckets_, 0)

\* the sum of field f over the buckets of B
RECURSIVE FieldSum(_, _)
FieldSum(f, B) ==
  IF B = {} THEN 0
  ELSE LET b == CHOOSE x \in B : TRUE
       IN  buckets_[b][f] + FieldSum(f, B \ {b})

\* faulty variant: the walk stops only where the running count equals the target
Reached_Equal(current_ops, target_op) == current_ops = target_op

\* the test of the percentile walk: current_ops >= target_op
Reached(current_ops, target_op) == current_ops >= target_op

\* get_percentile_latency(percentile), percentile given in tenths of a
\* percent.  target_op = total_ops * percentile / 100.0, truncated.  The loop
\* returns i * 1000 for the first bucket i whose running count passes the
\* test; current_ops changes only at buckets that were stored into, so the
\* first such i is bucket 0 or one of those.
get_percentile_latency(p10) ==
  LET total_ops == total_operations_
      target_op == (total_ops * p10) \div 1000
      current_ops(i) == FieldSum("count_", {b \in DOMAIN buckets_ : b <= i})
      hits == {i \in {0} \cup DOMAIN buckets_ :
                 Reached(current_ops(i), target_op)}
  IN  IF total_ops = 0 THEN 0
      ELSE IF hits = {} THEN (NUM_BUCKETS - 1) * 1000
      ELSE (CHOOSE i \in hits : \A j \in hits : i <= j) * 1000


----------------------------------------------------------------------------
(* NanosecondTimer *)

TThreads == {"a", "b"}
\* no now_ns result yet
NONE == -1

\* the cycle counts passed to tsc_to_ns
Cycles == {MaxTsc}

\* static members: tsc_frequency_ns_{0.0}, calibrated_{false}
TInit ==
  /\ tsc_frequency_ns_ = [cycles |-> 0, wall_ns |-> 1]
  /\ calibrated_ = FALSE
  /\ tsc = 0
  /\ t_pc = [t \in TThreads |-> "idle"]
  /\ t_op = [t \in TThreads |-> "none"]
  /\ t_start = [t \in TThreads |-> 0]
  /\ t_tsc = [t \in TThreads |-> 0]
  /\ t_last = [t \in TThreads |-> NONE]
  /\ t_sound = TRUE

\* the counter advances; it never goes back
Tick ==
  /\ tsc < MaxTsc
  /\ tsc' = tsc + 1
  /\ UNCHANGED <<tsc_frequency_ns_, calibrated_, t_pc, t_op, t_start, t_tsc,
                 t_last, t_sound>>

\* the values static_cast<uint64_t>(cycles / frequency) can yield.  A positive
\* finite frequency gives the truncated quotient; an infinite one
\* (wall_ns = 0) gives 0; with frequency 0.0 or NaN the quotient is inf or
\* NaN, whose conversion to uint64_t is undefined: any value.
DivByFrequency(cycles, f) ==
  IF f.cycles > 0 /\ f.wall_ns > 0 THEN {(cycles * f.wall_ns) \div f.cycles}
  ELSE IF f.cycles > 0 THEN {0}
  ELSE 0 .. MaxTsc * MaxWall

\* now_ns(): if (!calibrated_.load()) calibrate();
NowNsCall(t) ==
  /\ t_pc[t] = "idle"
  /\ t_op' = [t_op EXCEPT ![t] = "now_ns"]
  /\ t_pc' = [t_pc EXCEPT ![t] = IF calibrated_ THEN "rdtsc" ELSE "cal_check"]
  /\ UNCHANGED <<tsc_frequency_ns_, calibrated_, tsc, t_start, t_tsc, t_last,
                 t_sound>>

\* tsc_to_ns(tsc_cycles): if (!calibrated_.load()) calibrate();
TscToNsCall(t) ==
  /\ t_pc[t] = "idle"
  /\ \E tsc_cycles \in Cycles : t_tsc' = [t_tsc EXCEPT ![t] = tsc_cycles]
  /\ t_op' = [t_op EXCEPT ![t] = "tsc_to_ns"]
  /\ t_pc' = [t_pc EXCEPT ![t] = IF calibrated_ THEN "convert" ELSE "cal_check"]
  /\ UNCHANGED <<tsc_frequency_ns_, calibrated_, tsc, t_start, t_last,
                 t_sound>>

\* a direct call of calibrate()
CalibrateCall(t) ==
  /\ t_pc[t] = "idle"
  /\ t_op' = [t_op EXCEPT ![t] = "calibrate"]
  /\ t_pc' = [t_pc EXCEPT ![t] = "cal_check"]
  /\ UNCHANGED <<tsc_frequency_ns_, calibrated_, tsc, t_start, t_tsc, t_last,
                 t_sound>>

\* force_recalibrate(): calibrated_.store(false); calibrate();
ForceRecalibrate(t) ==
  /\ t_pc[t] = "idle"
  /\ calibrated_' = FALSE
  /\ t_op' = [t_op EXCEPT ![t] = "force"]
  /\ t_pc' = [t_pc EXCEPT ![t] = "cal_check"]
  /\ UNCHANGED <<tsc_frequency_ns_, tsc, t_start, t_tsc, t_last, t_sound>>

\* where a thread continues when calibrate() returns
AfterCalibrate(t) ==
  IF t_op[t] = "now_ns" THEN "rdtsc"
  ELSE IF t_op[t] = "tsc_to_ns" THEN "convert"
  ELSE "idle"

\* the function a thread is in after leaving calibrate()
OpAfterCalibrate(t) ==
  IF t_op[t] \in {"now_ns", "tsc_to_ns"} THEN t_op[t] ELSE "none"

\* calibrate(): if (calibrated_.load()) return;
CalibrateCheck(t) ==
  /\ t_pc[t] = "cal_check"
  /\ t_pc' = [t_pc EXCEPT ![t] =
                IF calibrated_ THEN AfterCalibrate(t) ELSE "cal_start"]
  /\ t_op' = [t_op EXCEPT ![t] =
                IF calibrated_ THEN OpAfterCalibrate(t) ELSE @]
  /\ UNCHANGED <<tsc_frequency_ns_, calibrated_, tsc, t_start, t_tsc,
                 t_last, t_sound>>

\* calibrate(): start_wall = now(); start_tsc = rdtsc(); sleep_for(100ms)
CalibrateStart(t) ==
  /\ t_pc[t] = "cal_start"
  /\ t_start' = [t_start EXCEPT ![t] = tsc]
  /\ t_pc' = [t_pc EXCEPT ![t] = "cal_end"]
  /\ UNCHANGED <<tsc_frequency_ns_, calibrated_, tsc, t_op, t_tsc, t_last,
                 t_sound>>

\* calibrate(): end_wall = now(); end_tsc = rdtsc();
\* frequency = double(end_tsc - start_tsc) / wall_duration_ns;
\* tsc_frequency_ns_.store(frequency)
CalibrateStore(t) ==
  /\ t_pc[t] = "cal_end"
  /\ \E wall_duration_ns \in 0 .. MaxWall :
       LET tsc_duration == tsc - t_start[t]
       IN  /\ tsc_frequency_ns_' =
                [cycles |-> tsc_duration, wall_ns |-> wall_duration_ns]
           /\ t_sound' = (t_sound /\ tsc_duration > 0 /\ wall_duration_ns > 0)
  /\ t_start' = [t_start EXCEPT ![t] = 0]
  /\ t_pc' = [t_pc EXCEPT ![t] = "cal_flag"]
  /\ UNCHANGED <<calibrated_, tsc, t_op, t_tsc, t_last>>

\* calibrate(): calibrated_.store(true); return
CalibrateFlag(t) ==
  /\ t_pc[t] = "cal_flag"
  /\ calibrated_' = TRUE
  /\ t_pc' = [t_pc EXCEPT ![t] = AfterCalibrate(t)]
  /\ t_op' = [t_op EXCEPT ![t] = OpAfterCalibrate(t)]
  /\ UNCHANGED <<tsc_frequency_ns_, tsc, t_start, t_tsc, t_last, t_sound>>

\* now_ns(): the rdtsc instruction
NowNsRdtsc(t) ==
  /\ t_pc[t] = "rdtsc"
  /\ t_tsc' = [t_tsc EXCEPT ![t] = tsc]
  /\ t_pc' = [t_pc EXCEPT ![t] = "divide"]
  /\ UNCHANGED <<tsc_frequency_ns_, calibrated_, tsc, t_op, t_start, t_last,
                 t_sound>>

\* now_ns(): return static_cast<uint64_t>(tsc / tsc_frequency_ns_.load())
NowNsReturn(t) ==
  /\ t_pc[t] = "divide"
  /\ \E ns \in DivByFrequency(t_tsc[t], tsc_frequency_ns_) :
       t_last' = [t_last EXCEPT ![t] = ns]
  /\ t_tsc' = [t_tsc EXCEPT ![t] = 0]
  /\ t_pc' = [t_pc EXCEPT ![t] = "idle"]
  /\ t_op' = [t_op EXCEPT ![t] = "none"]
  /\ UNCHANGED <<tsc_frequency_ns_, calibrated_, tsc, t_start, t_sound>>

\* tsc_to_ns(): return static_cast<uint64_t>(tsc_cycles /
\* tsc_frequency_ns_.load()); the result goes to the caller
TscToNsReturn(t) ==
  /\ t_pc[t] = "convert"
  /\ \E ns \in DivByFrequency(t_tsc[t], tsc_frequency_ns_) : TRUE
  /\ t_tsc' = [t_tsc EXCEPT ![t] = 0]
  /\ t_pc' = [t_pc EXCEPT ![t] = "idle"]
  /\ t_op' = [t_op EXCEPT ![t] = "none"]
  /\ UNCHANGED <<tsc_frequency_ns_, calibrated_, tsc, t_start, t_last,
                 t_sound>>

----------------------------------------------------------------------------
(* PerformanceDashboard *)

\* a std::thread object that owns no thread (not joinable)
NOTHREAD == 0
\* the values NanosecondTimer::now_ns() hands to update_metrics
Times == {0, 1, 1000000002, 2000000003}
\* if (time_diff_ns > 1000000000), (orders_diff * 1000000000)
NS_PER_SEC == 1000000000
\* if (++log_counter % 100 == 0)
LOG_EVERY == 100

\* unsigned arithmetic of the model's words, which are 31 bits wide
\* (UINT64_MAX is 2^31 - 1): a + b, a - b and a * b, wrapping
AddW(a, b) == IF a > UINT64_MAX - b THEN (a - (UINT64_MAX - b)) - 1 ELSE a + b

SubW(a, b) == IF a >= b THEN a - b ELSE (UINT64_MAX - (b - a)) + 1

\* a * b by doubling: b = 0 gives 0, an even b gives (2a) * (b / 2), an odd
\* one that plus a.  x, y and h stand for the values of the operands and of
\* the inner product, each worked out once.
RECURSIVE MulW(_, _)
MulW(a, b) ==
  CHOOSE r \in UNION {
      IF y = 0 THEN {0}
      ELSE {IF y % 2 = 1 THEN AddW(h, x) ELSE h :
              h \in {MulW(AddW(x, x), y \div 2)}} :
      x \in {a}, y \in {b}} : TRUE

\* PerformanceMetrics' member initializers
NewMetrics ==
  [orders_per_second_ |-> 0, trades_per_second_ |-> 0, avg_latency_ns_ |-> 0,
   p99_latency_ns_ |-> 0, p99_9_latency_ns_ |-> 0, memory_usage_bytes_ |-> 0,
   cpu_usage_percent_ |-> 0]

\* PerformanceDashboard() = default; static uint64_t log_counter = 0
DInit ==
  /\ running_ = FALSE
  /\ reporter_thread_ = NOTHREAD
  /\ tasks = <<>>
  /\ terminated = FALSE
  /\ log_counter = 0
  /\ metrics_ = NewMetrics
  /\ last_orders_count_ = 0
  /\ last_report_time_ = 0
  /\ d_pc = "idle"
  /\ d_ticks = 0
  /\ d_emitted = 0
  /\ d_calls = 0

\* the threads of start() that have not left the lambda
LiveTasks == {k \in DOMAIN tasks : tasks[k] # "exited"}

\* reporter_thread_.joinable()
joinable == reporter_thread_ # NOTHREAD

\* start(): running_.store(true)
StartStore ==
  /\ ~terminated
  /\ d_pc = "idle"
  /\ log_counter <= MaxCallAt
  /\ running_' = TRUE
  /\ d_pc' = "start_thread"
  /\ UNCHANGED <<reporter_thread_, tasks, terminated, log_counter, metrics_,
                 last_orders_count_, last_report_time_, d_ticks, d_emitted>>
  /\ UNCHANGED d_calls

\* start(): std::thread([this]() {...}) - the new thread exists and runs
StartThread ==
  /\ ~terminated
  /\ d_pc = "start_thread"
  /\ tasks' = Append(tasks, "check")
  /\ d_pc' = "start_assign"
  /\ d_ticks' = 0
  /\ d_emitted' = 0
  /\ UNCHANGED <<running_, reporter_thread_, terminated, log_counter,
                 metrics_, last_orders_count_, last_report_time_>>
  /\ UNCHANGED d_calls

\* start(): reporter_thread_ = <the new thread>.  std::thread's move
\* assignment calls std::terminate() when the target is joinable.
StartAssign ==
  /\ ~terminated
  /\ d_pc = "start_assign"
  /\ IF joinable
       THEN terminated' = TRUE /\ UNCHANGED <<reporter_thread_, d_pc>>
       ELSE /\ reporter_thread_' = Len(tasks)
            /\ d_pc' = "idle"
            /\ UNCHANGED terminated
  /\ UNCHANGED <<running_, tasks, log_counter, metrics_, last_orders_count_,
                 last_report_time_, d_ticks, d_emitted>>
  /\ UNCHANGED d_calls

\* faulty variant: stop() leaves the flag as it is
StopFlag_Kept == running_

\* the value stop() stores into running_
StopFlag == FALSE

\* stop(): running_.store(false)
StopStore ==
  /\ ~terminated
  /\ d_pc = "idle"
  /\ log_counter <= MaxCallAt
  /\ running_' = StopFlag
  /\ d_pc' = "stop_join"
  /\ UNCHANGED <<reporter_thread_, tasks, terminated, log_counter, metrics_,
                 last_orders_count_, last_report_time_, d_ticks, d_emitted>>
  /\ UNCHANGED d_calls

\* the threads left when thread k has been joined
Joined(k) ==
  [i \in 1 .. Len(tasks) - 1 |-> IF i < k THEN tasks[i] ELSE tasks[i + 1]]

\* stop(): if (reporter_thread_.joinable()) reporter_thread_.join(); return.
\* join() returns once the thread has left the lambda; the thread is gone
\* then.
StopJoin ==
  /\ ~terminated
  /\ d_pc = "stop_join"
  /\ IF joinable
       THEN /\ tasks[reporter_thread_] = "exited"
            /\ tasks' = Joined(reporter_thread_)
       ELSE UNCHANGED tasks
  /\ reporter_thread_' = NOTHREAD
  /\ d_pc' = "idle"
  /\ UNCHANGED <<running_, terminated, log_counter, metrics_,
                 last_orders_count_, last_report_time_, d_ticks, d_emitted>>
  /\ UNCHANGED d_calls

\* the reporter lambda: while (running_.load()): into the body, or out of
\* the lambda
TaskCheck(k) ==
  /\ ~terminated
  /\ k \in DOMAIN tasks
  /\ tasks[k] = "check"
  /\ running_ => log_counter < MaxTicks
  /\ tasks' = [tasks EXCEPT ![k] = IF running_ THEN "update" ELSE "exited"]
  /\ UNCHANGED <<running_, reporter_thread_, terminated, log_counter,
                 metrics_, last_orders_count_, last_report_time_, d_pc,
                 d_ticks, d_emitted>>
  /\ UNCHANGED d_calls

\* update_metrics(): the three latency figures are stored; the first call with
\* last_report_time_ = 0 notes the time and returns; a later call recomputes
\* the throughput once more than a second has passed, and stores the two
\* placeholders
UpdateMetrics(k) ==
  /\ ~terminated
  /\ k \in DOMAIN tasks
  /\ tasks[k] = "update"
  /\ \E current_time \in Times :
       LET m1 == [metrics_ EXCEPT
                    !.avg_latency_ns_ = get_average_latency,
                    !.p99_latency_ns_ = get_percentile_latency(990),
                    !.p99_9_latency_ns_ = get_percentile_latency(999)]
           time_diff_ns == SubW(current_time, last_report_time_)
           current_orders == get_total_operations
           orders_diff == SubW(current_orders, last_orders_count_)
           orders_per_sec == MulW(orders_diff, NS_PER_SEC) \div time_diff_ns
           m2 == [m1 EXCEPT !.memory_usage_bytes_ = 1024 * 1024 * 512,
                            !.cpu_usage_percent_ = 75]
       IN  IF last_report_time_ = 0
             THEN /\ last_report_time_' = current_time
                  /\ metrics_' = m1
                  /\ UNCHANGED <<last_orders_count_, d_calls>>
             ELSE IF time_diff_ns > NS_PER_SEC
               THEN /\ metrics_' = [m2 EXCEPT !.orders_per_second_ =
                                                 orders_per_sec]
                    /\ last_orders_count_' = current_orders
                    /\ last_report_time_' = current_time
                    /\ d_calls' = 0
               ELSE /\ metrics_' = m2
                    /\ UNCHANGED <<last_orders_count_, last_report_time_,
                                   d_calls>>
  /\ tasks' = [tasks EXCEPT ![k] = "publish"]
  /\ UNCHANGED <<running_, reporter_thread_, terminated, log_counter, d_pc,
                 d_ticks, d_emitted>>

\* faulty variant: the summary is never written
Logs_Never(counter) == FALSE

\* publish_metrics(): the test ++log_counter % 100 == 0 on the incremented
\* counter
Logs(counter) == counter % LOG_EVERY = 0

\* publish_metrics(), then sleep_for(100ms) and back to the loop test
PublishMetrics(k) ==
  /\ ~terminated
  /\ k \in DOMAIN tasks
  /\ tasks[k] = "publish"
  /\ log_counter' = log_counter + 1
  /\ d_ticks' = d_ticks + 1
  /\ d_emitted' = IF Logs(log_counter + 1) THEN d_emitted + 1 ELSE d_emitted
  /\ tasks' = [tasks EXCEPT ![k] = "check"]
  /\ UNCHANGED <<running_, reporter_thread_, terminated, metrics_,
                 last_orders_count_, last_report_time_, d_pc>>
  /\ UNCHANGED d_calls


----------------------------------------------------------------------------
(* Claims about the SPSC ring *)

\* the items published by updateWriteIndex and not yet consumed
Outstanding == (read_pos_ + 1) .. write_pos_

\* C1: SPSC FIFO.  The sequence of values popped by the consumer is, at every
\* moment, the sequence of values pushed by the producer, in order and
\* unaltered (a prefix of it while items are still in the ring).
C1_Fifo == IsPrefix(popped, pushed)

\* C2: SPSC capacity.  The number of committed-but-unconsumed items lies in
\* [0, N-1], and whenever it is N-1 getNextToWriteTo returns null.
C2_Capacity ==
  /\ write_pos_ - read_pos_ \in 0 .. QN - 1
  /\ (write_pos_ - read_pos_ = QN - 1) => getNextToWriteTo = NULLP

\* C3: no silent data loss.  The slot handed to the producer holds no
\* published, unconsumed item, and every published, unconsumed item still
\* sits, unaltered, in a slot of the ring.
C3_NoSilentLoss ==
  /\ p_pc # "idle" => \A i \in Outstanding : slots[i] # p_slot
  /\ \A i \in Outstanding :
       InStore(slots[i]) /\ store_[slots[i]] = pushed[i]

\* the consumer's call of updateReadIndex returns in this step
CommitReturns ==
  \/ c_pc = "read" /\ c_pc' = "idle"
  \/ c_ok' # c_ok
  \/ read_pos_' # read_pos_

\* the consumer's call of getNextToRead returns in this step
PeekReturns ==
  \/ c_pc = "idle" /\ c_pc' = "peeked"
  \/ c_slot' # c_slot

C18_Step ==
  /\ CommitReturns =>
       IF Outstanding = {}
         THEN c_ok' = FALSE /\ read_pos_' = read_pos_
         ELSE c_ok' = TRUE /\ read_pos_' = read_pos_ + 1
  /\ PeekReturns => (c_slot' = NULLP <=> Outstanding = {})
  /\ ~CommitReturns => read_pos_' = read_pos_

\* C18: empty-ring handling on the consumer side.  updateReadIndex on an
\* empty ring returns false and leaves read_pos_ unchanged, so read_pos_ never
\* passes write_pos_; on a non-empty ring it returns true and advances
\* read_pos_ by exactly one; getNextToRead returns null exactly when the ring
\* is empty.
C18_EmptyRing == [](read_pos_ <= write_pos_) /\ [][C18_Step]_vars

\* C18 witness: the consumer emptied the ring with a successful
\* updateReadIndex and a further updateReadIndex returned false.
C18_Witness ==
  /\ read_pos_ = write_pos_ /\ read_pos_ >= 2
  /\ c_pc = "idle" /\ c_ok = FALSE

\* C19: index wrap is masked.  Every slot handed out by getNextToWriteTo or
\* getNextToRead is store_[i] with 0 <= i <= N-1, after any number of
\* updateWriteIndex and updateReadIndex calls.
C19_Masked ==
  /\ p_ret # NULLP => p_ret \in 0 .. QN - 1
  /\ p_pc # "idle" => p_slot \in 0 .. QN - 1
  /\ c_pc # "idle" => c_slot \in 0 .. QN - 1

Front == read_pos_ + 1

\* C21: publication ordering.  getNextToRead returns a slot only after the
\* producer's updateWriteIndex for that slot; a slot that was reserved and
\* written but not yet committed is never returned to the consumer, and the
\* value the consumer reads from a returned slot is the value the producer
\* wrote before that updateWriteIndex, under any interleaving of producer
\* and consumer steps.
C21_Publication ==
  /\ c_pc # "idle" =>
       /\ Front <= write_pos_
       /\ slots[Front] = c_slot
       /\ p_pc # "idle" => p_slot # c_slot
  /\ c_pc = "read" => c_val = pushed[Front]

\* the producer's call of getNextToWriteTo returns in this step
ReserveReturns ==
  /\ p_pc = "idle"
  /\ p_pc' = "reserved" \/ p_ret' # p_ret

\* the producer's call of updateWriteIndex returns in this step
WriteCommitReturns == p_pc = "written" /\ p_pc' = "idle"

\* a call of size() returns in this step
SizeReturns == s_ret' # s_ret

\* a thread that holds a slot gets the same slot from a further call
C22_StateInv ==
  /\ p_pc # "idle" => getNextToWriteTo = p_slot
  /\ c_pc # "idle" => getNextToRead = c_slot
  /\ size = (write_pos_ - read_pos_) % QN
  /\ s_ret \in 0 .. QN - 1

C22_Step ==
  /\ ReserveReturns \/ PeekReturns =>
       UNCHANGED <<write_pos_, read_pos_, store_>>
  /\ WriteCommitReturns =>
       write_pos_' = write_pos_ + 1 /\ UNCHANGED <<read_pos_, store_>>
  /\ CommitReturns =>
       /\ read_pos_' \in {read_pos_, read_pos_ + 1}
       /\ UNCHANGED <<write_pos_, store_>>
  /\ write_pos_' # write_pos_ => WriteCommitReturns
  /\ read_pos_' # read_pos_ => c_pc' = "idle" /\ c_ok' = TRUE
  /\ SizeReturns =>
       /\ s_ret' = (write_pos_ - read_pos_) % QN
       /\ UNCHANGED <<store_, write_pos_, read_pos_, p_pc, p_slot, p_ret,
                      c_pc, c_slot, c_ok, c_val>>

\* C22: frame conditions of the ring operations.  getNextToWriteTo and
\* getNextToRead change neither write_pos_ nor read_pos_ (a repeated call
\* without a commit returns the same slot); updateWriteIndex changes only
\* write_pos_, by exactly +1; updateReadIndex changes only read_pos_, by +1
\* or not at all; size() changes nothing and returns
\* (write_pos_ - read_pos_) mod N.
C22_Frame == []C22_StateInv /\ [][C22_Step]_vars

\* C22 witness: past the capacity, both threads hold a slot and size() has
\* returned the occupancy N-2.
C22_Witness ==
  /\ write_pos_ > QN /\ read_pos_ >= 2
  /\ p_pc = "reserved" /\ c_pc = "peeked"
  /\ c_slot = read_pos_ /\ p_slot = write_pos_
  /\ s_ret = QN - 2 /\ size = QN - 2

----------------------------------------------------------------------------
(* Claims about the object pool *)

\* the blocks a thread has claimed: those returned to it and not yet
\* deallocated, and the one its allocate in progress has just claimed
Owned(t) ==
  held[t] \cup (IF a_pc[t] \in {"hint", "new"} THEN {a_current[t]} ELSE {})

RECURSIVE OwnedCount(_)
OwnedCount(T) ==
  IF T = {} THEN 0
  ELSE LET t == CHOOSE x \in T : TRUE
       IN  Cardinality(Owned(t)) + OwnedCount(T \ {t})

InUse == {b \in Blocks : ~is_free_[b]}

\* C4: pool exclusivity.  Under every interleaving of allocate and deallocate
\* calls, no block is claimed by two threads at the same time.
C4_Exclusive ==
  \A t, u \in PThreads : t # u => Owned(t) \cap Owned(u) = {}

\* C4 witness: two allocate calls raced for the same block; one claimed it,
\* the other's exchange failed.
C4_Witness ==
  \E t, u \in PThreads :
    /\ t # u
    /\ a_pc[t] = "hint" /\ a_pc[u] = "loop" /\ a_retry[u] >= 1
    /\ a_current[u] = a_current[t]

\* C5: reuse after release.  allocate does not return null while a block is
\* free: in particular, with every block held, after one is deallocated the
\* next allocate returns it, wherever next_free_ points.
C5_NoNullWhileFree ==
  \A t \in PThreads :
    (a_pc[t] = "loop" /\ a_retry[t] >= MAX_RETRY) => InUse = Blocks

\* C6: pool exhaustion.  From a fresh pool, successive allocate calls claim
\* pairwise distinct blocks of the pool and none fails before all PN blocks
\* are held; a call made while all are held makes at most 1000 exchanges,
\* returns null after the 1000th, and changes no free flag.
C6_StateInv ==
  /\ held["t1"] \subseteq Blocks
  /\ a_pc["t1"] \in {"hint", "new"} =>
       a_current["t1"] \in Blocks \ held["t1"]
  /\ a_retry["t1"] <= MAX_RETRY
  /\ a_retry["t1"] > 0 => held["t1"] = Blocks
  /\ held["t1"] = Blocks => InUse = Blocks

C6_NullReturn ==
  (a_pc["t1"] = "loop" /\ a_pc'["t1"] = "idle") =>
     /\ a_retry["t1"] = MAX_RETRY
     /\ held'["t1"] = Blocks
     /\ is_free_' = is_free_

C6_Exhaustion ==
  /\ []C6_StateInv
  /\ [][C6_NullReturn /\ (held["t1"] = Blocks => is_free_' = is_free_)]_vars

\* C6 witness: all PN blocks are held and a further allocate has made its
\* 1000th failed exchange.
C6_Witness ==
  /\ held["t1"] = Blocks
  /\ a_pc["t1"] = "loop" /\ a_retry["t1"] = MAX_RETRY

\* C7: pool round trip.  The number of blocks whose free flag is false is
\* always the number of blocks claimed by callers; when nothing is claimed
\* every block is free; and a deallocate changes the free flag of the block
\* it returns and nothing else of the pool.
C7_Count ==
  /\ Cardinality(InUse) = OwnedCount(PThreads)
  /\ (\A t \in PThreads : Owned(t) = {}) => InUse = {}

C7_ReleaseFrame ==
  \A t \in PThreads : \A b \in Blocks :
    (b \in held[t] /\ b \notin held'[t]) =>
       /\ is_free_'[b]
       /\ \A c \in Blocks \ {b} : is_free_'[c] = is_free_[c]
       /\ next_free_' = next_free_
       /\ object_' = object_

C7_RoundTrip == []C7_Count /\ [][C7_ReleaseFrame]_vars

\* C7 witness: a block was allocated and deallocated again, and the pool is
\* entirely free with its object still in place.
C7_Witness ==
  /\ \A t \in PThreads : held[t] = {} /\ a_pc[t] = "idle"
  /\ InUse = {}
  /\ next_free_ = 1 /\ object_[0] # 0


----------------------------------------------------------------------------
(* Claims about the latency histogram *)

HQuiescent == \A t \in HThreads : h_pc[t] = "idle"

\* C8: histogram conservation.  Once every record_latency call has returned,
\* after k calls with values v1..vk from any number of threads,
\* total_operations_ = k, the bucket counts add up to k and the bucket sums
\* add up to v1 + ... + vk.
C8_Conservation ==
  HQuiescent =>
    /\ get_total_operations = BagSize(recorded, Lats)
    /\ FieldSum("count_", DOMAIN buckets_) = BagSize(recorded, Lats)
    /\ FieldSum("sum_", DOMAIN buckets_) = BagSum(recorded, Lats)

\* C8 witness: MaxRecords calls have returned, several of them into the same
\* bucket and some into another one.
C8_Witness ==
  /\ HQuiescent
  /\ BagSize(recorded, Lats) = MaxRecords
  /\ Cardinality(DOMAIN buckets_) >= 2
  /\ \E b \in DOMAIN buckets_ : buckets_[b].count_ >= 2

\* C9: percentile monotonicity.  For the histogram as it stands and any
\* p1 <= p2, get_percentile_latency(p1) <= get_percentile_latency(p2).
C9_Monotone ==
  \A p1, p2 \in Pcts :
    p1 <= p2 => get_percentile_latency(p1) <= get_percentile_latency(p2)

\* C9 witness: a histogram on which two percentiles differ.
C9_Witness ==
  /\ HQuiescent
  /\ get_percentile_latency(500) < get_percentile_latency(990)
  /\ get_percentile_latency(0) < get_percentile_latency(1000)


\* the bucket the claims assign to a value: floor(ns / 1000), and 999 for
\* every value from 999000 on
ClaimedBucket(ns) == IF ns >= 999000 THEN 999 ELSE ns \div 1000

\* buckets_[b] after the step
BucketAfter(b) == IF b \in DOMAIN buckets_' THEN buckets_'[b] ELSE NewBucket

\* the thread that takes the step
Stepped(t) == h_pc'[t] # h_pc[t] \/ h_cur'[t] # h_cur[t]

\* after the calls have returned, every bucket holds the count and the sum of
\* the values assigned to it, and no other bucket was touched
C16_StateInv ==
  HQuiescent =>
    /\ \A v \in Lats :
         LET same == {w \in Lats : ClaimedBucket(w) = ClaimedBucket(v)}
         IN  /\ Bucket(ClaimedBucket(v)).count_ = BagSize(recorded, same)
             /\ Bucket(ClaimedBucket(v)).sum_ = BagSum(recorded, same)
    /\ \A b \in DOMAIN buckets_ :
         \E v \in Lats : recorded[v] > 0 /\ ClaimedBucket(v) = b

\* a step of a record_latency(ns) call changes no bucket but the one assigned
\* to ns; its count goes up by 1 and its sum by ns, once each
C16_Step ==
  \A t \in HThreads :
    Stepped(t) =>
      LET b == ClaimedBucket(h_ns[t])
      IN  /\ \A c \in (DOMAIN buckets_ \cup DOMAIN buckets_') \ {b} :
               BucketAfter(c) = Bucket(c)
          /\ BucketAfter(b).count_ =
               Bucket(b).count_ + (IF h_pc[t] = "count" THEN 1 ELSE 0)
          /\ BucketAfter(b).sum_ =
               Bucket(b).sum_ + (IF h_pc[t] = "sum" THEN h_ns[t] ELSE 0)

\* C16: bucket selection.  record_latency(ns) updates exactly one bucket, the
\* one with index min(floor(ns / 1000), 999): it adds 1 to its count and ns
\* to its sum and leaves every other bucket unchanged; every value from
\* 999000 on lands in bucket 999.
C16_BucketSelection == []C16_StateInv /\ [][C16_Step]_vars

\* C16 witness: values on both sides of the last bucket's lower edge were
\* recorded, two different ones into bucket 999.
C16_Witness ==
  /\ HQuiescent
  /\ recorded[998999] >= 1 /\ recorded[999000] >= 1 /\ recorded[1000001] >= 1
  /\ Bucket(999).count_ >= 2 /\ Bucket(998).count_ >= 1

\* C17: percentile of a single-bucket histogram.  When k >= 1 values were
\* recorded and all of them fall in the same bucket b,
\* get_percentile_latency(p) is 1000 * b for every p in (0, 100].
C17_SingleBucket ==
  \A b \in {ClaimedBucket(v) : v \in Lats} :
    ( /\ HQuiescent
      /\ BagSize(recorded, Lats) >= 1
      /\ \A v \in Lats : recorded[v] > 0 => ClaimedBucket(v) = b )
    => \A p \in Pcts \ {0} : get_percentile_latency(p) = 1000 * b

\* the values passed to record_latency so far
Recorded == {v \in Lats : recorded[v] > 0}

Fresh ==
  /\ \A b \in DOMAIN buckets_ : buckets_[b] = NewBucket
  /\ total_operations_ = 0
  /\ total_latency_ = 0

\* every query answers as on a freshly constructed tracker
QueriesZero ==
  /\ get_total_operations = 0
  /\ get_average_latency = 0
  /\ get_min_latency = 0
  /\ get_max_latency = 0
  /\ \A p \in Pcts : get_percentile_latency(p) = 0

\* the call of reset() returns in this step
ResetReturns == r_pc = "total_lat" /\ r_pc' = "idle"

\* what the tracker holds is what was recorded since the last reset
C25_StateInv ==
  (HQuiescent /\ r_pc = "idle") =>
    /\ total_operations_ = BagSize(recorded, Lats)
    /\ total_latency_ = BagSum(recorded, Lats)
    /\ \A b \in RBuckets :
         /\ Bucket(b).count_ =
              BagSize(recorded, {v \in Lats : BucketIndex(v) = b})
         /\ Bucket(b).sum_ =
              BagSum(recorded, {v \in Lats : BucketIndex(v) = b})
    /\ BagSize(recorded, Lats) = 0 => Fresh /\ QueriesZero

C25_Step == ResetReturns => Fresh' /\ QueriesZero'

\* C25: reset() restores the initial state.  After reset() completes with no
\* concurrent record_latency, every bucket has count_ = 0, sum_ = 0, max_ = 0
\* and min_ = UINT64_MAX and both totals are 0, so the tracker is
\* indistinguishable from a freshly constructed one (all queries return 0)
\* and later records are counted from zero; reset() is idempotent.
C25_Reset == []C25_StateInv /\ [][C25_Step]_vars

\* C25 witness: after a first reset two values were recorded and counted from
\* zero, and a second reset has wiped the buckets and total_operations_ and
\* is about to wipe total_latency_.
C25_Witness ==
  /\ resets = 1 /\ r_pc = "total_lat"
  /\ BagSize(recorded, Lats) = 2
  /\ total_latency_ = BagSum(recorded, Lats)
  /\ total_operations_ = 0
  /\ DOMAIN buckets_ # {}
  /\ \A b \in DOMAIN buckets_ : buckets_[b] = NewBucket

\* C26: histogram totals stay consistent across reset.  In any quiescent
\* state (no record_latency or reset in progress) reached by any interleaving
\* of concurrent record_latency and reset calls, total_operations_ equals the
\* sum of all bucket counts and total_latency_ the sum of all bucket sums.
C26_TotalsConsistent ==
  (HQuiescent /\ r_pc = "idle") =>
    /\ total_operations_ = FieldSum("count_", DOMAIN buckets_)
    /\ total_latency_ = FieldSum("sum_", DOMAIN buckets_)

\* C23: bucket invariant.  In every reachable state of the histogram,
\* including the states between the atomic steps of one or several concurrent
\* record_latency calls, each bucket satisfies
\* count_ > 0 => min_ <= max_ <= sum_.
C23_BucketInvariant ==
  \A b \in 0 .. NUM_BUCKETS - 1 :
    Bucket(b).count_ > 0 =>
      Bucket(b).min_ <= Bucket(b).max_ /\ Bucket(b).max_ <= Bucket(b).sum_

----------------------------------------------------------------------------
(* Claims about the timer *)

\* C10: timer monotonicity.  Within one thread a now_ns() result is never
\* smaller than the thread's previous one, whatever the other threads do to
\* the timer in between (the counter of the model never decreases; runs in
\* which a calibration measured a zero interval are left aside here).
C10_Step ==
  t_sound' =>
    \A t \in TThreads :
      (t_last[t] # NONE /\ t_pc[t] = "divide" /\ t_pc'[t] = "idle") =>
         t_last'[t] >= t_last[t]

C10_Monotone == [][C10_Step]_vars

\* C14: the timer never yields a zero divisor.  Whenever calibrated_ is true
\* the stored frequency is positive and finite, whatever the calibration
\* measured (a zero cycle delta or a zero wall-clock delta included: such a
\* measurement is not published), so that now_ns and tsc_to_ns divide by a
\* positive number.
C14_PositiveDivisor ==
  /\ calibrated_ =>
       (tsc_frequency_ns_.cycles > 0 /\ tsc_frequency_ns_.wall_ns > 0)
  /\ \A t \in TThreads :
       t_pc[t] \in {"divide", "convert"} =>
         (tsc_frequency_ns_.cycles > 0 /\ tsc_frequency_ns_.wall_ns > 0)

\* a thread stores a frequency: calibrate()'s tsc_frequency_ns_.store
StoresFrequency(t) == t_pc[t] = "cal_end" /\ t_pc'[t] = "cal_flag"

\* C15: calibration is set exactly once.  Starting uncalibrated, with threads
\* making now_ns, tsc_to_ns and calibrate calls in any interleaving and no
\* force_recalibrate, the frequency is stored once: no store happens when a
\* frequency was stored before (by a thread that is about to set calibrated_,
\* or with calibrated_ already true).
C15_Step ==
  \A t \in TThreads :
    StoresFrequency(t) =>
      (~calibrated_ /\ \A u \in TThreads : t_pc[u] # "cal_flag")

C15_SetOnce == [][C15_Step]_vars

----------------------------------------------------------------------------
(* Claims about the metrics publisher *)

\* C11: a second start() while the publisher is running is a no-op.  While
\* reporter_thread_ owns a thread, a start() creates no further thread and
\* does not terminate the process: exactly one thread exists.
C11_SecondStartNoOp == joinable => (~terminated /\ Len(tasks) = 1)

\* the snapshots written since start() are one for every n ticks
EmittedEvery(n) ==
  /\ d_emitted >= d_ticks \div n
  /\ d_emitted <= (d_ticks + n - 1) \div n

\* C12: snapshot emission.  While the publisher runs the snapshot is written
\* on every tenth tick of the reporter, so that 15 ticks after start() at
\* least one snapshot has been written.
C12_EveryTenthTick ==
  /\ EmittedEvery(10)
  /\ d_ticks >= 15 => d_emitted >= 1

\* the publisher is stopped: no call in progress, no thread owned
Stopped == d_pc = "idle" /\ ~joinable

C13_StateInv ==
  /\ Len(tasks) <= 1
  /\ ~terminated
  /\ Stopped => (tasks = <<>> /\ ~running_)

\* while the publisher is stopped nothing is updated or written, and a stop()
\* called then changes nothing at all
C13_Step ==
  /\ Stopped =>
       UNCHANGED <<log_counter, metrics_, last_orders_count_,
                   last_report_time_, d_ticks, d_emitted>>
  /\ (~joinable /\ d_pc = "stop_join") =>
       UNCHANGED <<running_, reporter_thread_, tasks, log_counter, metrics_,
                   last_orders_count_, last_report_time_>>

\* C13: publisher lifecycle.  When start() and stop() alternate, at most one
\* reporter thread exists at any time; every stop() returns (the reporter sees
\* the cleared flag at its next loop test and is joined); once stop() has
\* returned no thread is left and nothing more is updated or written; a
\* stop() without a start(), or a second stop(), is a no-op.
C13_Lifecycle ==
  /\ []C13_StateInv
  /\ [][C13_Step]_vars
  /\ (d_pc = "stop_join") ~> (d_pc = "idle")

\* C13 witness: the publisher was started, ticked, was stopped, was started
\* again, ticked once more and was stopped again.
C13_Witness ==
  /\ Stopped
  /\ log_counter >= 2 /\ d_ticks = 1

\* update_metrics stores a new throughput in this step
ThroughputUpdate ==
  last_report_time_ # 0 /\ last_report_time_' # last_report_time_

\* C27: throughput never wraps.  Whenever the publisher updates
\* orders_per_second_ (only on a tick where more than one second has passed
\* since the previous update), the stored value is
\* (current_total_ops - last_total_ops) * 10^9 / elapsed_ns computed without
\* unsigned underflow, and so at most the number of record_latency calls made
\* since the previous update, also when the histogram's reset() was called in
\* between or the publisher was stopped and restarted.
C27_Step ==
  ThroughputUpdate =>
    LET elapsed_ns == last_report_time_' - last_report_time_
        current_total_ops == total_operations_
        last_total_ops == last_orders_count_
    IN  /\ elapsed_ns > NS_PER_SEC
        /\ current_total_ops >= last_total_ops
        /\ metrics_'.orders_per_second_ =
             ((current_total_ops - last_total_ops) * NS_PER_SEC)
               \div elapsed_ns
        /\ metrics_'.orders_per_second_ <= d_calls

C27_NoWrap == [][C27_Step]_vars

----------------------------------------------------------------------------
Init == QInit /\ PInit /\ HInit /\ TInit /\ DInit

\* each component runs with the others left alone
QNext ==
  \/ ReserveWrite /\ UNCHANGED <<pvars, hvars, tvars, dvars>>
  \/ WriteSlot /\ UNCHANGED <<pvars, hvars, tvars, dvars>>
  \/ updateWriteIndex /\ UNCHANGED <<pvars, hvars, tvars, dvars>>
  \/ PeekRead /\ UNCHANGED <<pvars, hvars, tvars, dvars>>
  \/ ReadSlot /\ UNCHANGED <<pvars, hvars, tvars, dvars>>
  \/ c_pc = "read" /\ updateReadIndex /\ UNCHANGED <<pvars, hvars, tvars, dvars>>

\* the same with a consumer that also calls updateReadIndex with nothing
\* read; the producer pushes the value 1 every time
QConsNext ==
  \/ ReserveWrite /\ UNCHANGED <<pvars, hvars, tvars, dvars>>
  \/ WriteSlot /\ pushed'[Len(pushed')] = 1 /\ UNCHANGED <<pvars, hvars, tvars, dvars>>
  \/ updateWriteIndex /\ UNCHANGED <<pvars, hvars, tvars, dvars>>
  \/ PeekRead /\ UNCHANGED <<pvars, hvars, tvars, dvars>>
  \/ ReadSlot /\ UNCHANGED <<pvars, hvars, tvars, dvars>>
  \/ updateReadIndex /\ UNCHANGED <<pvars, hvars, tvars, dvars>>

\* the same with size() called at any moment
QFrameNext ==
  \/ QConsNext
  \/ SizeCall /\ UNCHANGED <<pvars, hvars, tvars, dvars>>

\* concurrent callers of the pool, each holding at most one block at a time
\* (PoolSeqNext has a caller that holds several)
PoolNext ==
  \/ \E t \in PThreads :
       held[t] = {} /\ AllocCall(t) /\ UNCHANGED <<qvars, hvars, tvars, dvars>>
  \/ \E t \in PThreads : AllocLoad(t) /\ UNCHANGED <<qvars, hvars, tvars, dvars>>
  \/ \E t \in PThreads : AllocExchange(t) /\ UNCHANGED <<qvars, hvars, tvars, dvars>>
  \/ \E t \in PThreads : AllocStoreHint(t) /\ UNCHANGED <<qvars, hvars, tvars, dvars>>
  \/ \E t \in PThreads : AllocReturn(t) /\ UNCHANGED <<qvars, hvars, tvars, dvars>>
  \/ \E t \in PThreads : AllocExhausted(t) /\ UNCHANGED <<qvars, hvars, tvars, dvars>>
  \/ \E t \in PThreads, b \in Blocks : deallocate(t, b) /\ UNCHANGED <<qvars, hvars, tvars, dvars>>

\* one caller of the pool, its calls one after the other
PoolSeqNext ==
  \/ AllocCall("t1") /\ UNCHANGED <<qvars, hvars, tvars, dvars>>
  \/ AllocLoad("t1") /\ UNCHANGED <<qvars, hvars, tvars, dvars>>
  \/ AllocExchange("t1") /\ UNCHANGED <<qvars, hvars, tvars, dvars>>
  \/ AllocStoreHint("t1") /\ UNCHANGED <<qvars, hvars, tvars, dvars>>
  \/ AllocReturn("t1") /\ UNCHANGED <<qvars, hvars, tvars, dvars>>
  \/ AllocExhausted("t1") /\ UNCHANGED <<qvars, hvars, tvars, dvars>>
  \/ \E b \in Blocks : deallocate("t1", b) /\ UNCHANGED <<qvars, hvars, tvars, dvars>>

\* one caller of a fresh pool that only allocates
PoolFreshNext ==
  \/ AllocCall("t1") /\ UNCHANGED <<qvars, hvars, tvars, dvars>>
  \/ AllocLoad("t1") /\ UNCHANGED <<qvars, hvars, tvars, dvars>>
  \/ AllocExchange("t1") /\ UNCHANGED <<qvars, hvars, tvars, dvars>>
  \/ AllocStoreHint("t1") /\ UNCHANGED <<qvars, hvars, tvars, dvars>>
  \/ AllocReturn("t1") /\ UNCHANGED <<qvars, hvars, tvars, dvars>>
  \/ AllocExhausted("t1") /\ UNCHANGED <<qvars, hvars, tvars, dvars>>

\* concurrent callers of record_latency
HistNext ==
  \/ \E t \in HThreads : RecordCall(t) /\ UNCHANGED <<qvars, pvars, tvars, dvars>>
  \/ \E t \in HThreads : BucketCount(t) /\ UNCHANGED <<qvars, pvars, tvars, dvars>>
  \/ \E t \in HThreads : BucketSum(t) /\ UNCHANGED <<qvars, pvars, tvars, dvars>>
  \/ \E t \in HThreads : BucketMinLoad(t) /\ UNCHANGED <<qvars, pvars, tvars, dvars>>
  \/ \E t \in HThreads : BucketMinCas(t) /\ UNCHANGED <<qvars, pvars, tvars, dvars>>
  \/ \E t \in HThreads : BucketMaxLoad(t) /\ UNCHANGED <<qvars, pvars, tvars, dvars>>
  \/ \E t \in HThreads : BucketMaxCas(t) /\ UNCHANGED <<qvars, pvars, tvars, dvars>>
  \/ \E t \in HThreads : TotalOps(t) /\ UNCHANGED <<qvars, pvars, tvars, dvars>>
  \/ \E t \in HThreads : TotalLatency(t) /\ UNCHANGED <<qvars, pvars, tvars, dvars>>

\* record_latency and reset never at the same time: reset is called with no
\* record_latency in progress, and the other way round
HistSeqNext ==
  \/ r_pc = "idle" /\ HistNext
  \/ HQuiescent /\ ResetCall /\ UNCHANGED <<qvars, pvars, tvars, dvars>>
  \/ ResetField /\ UNCHANGED <<qvars, pvars, tvars, dvars>>
  \/ ResetTotalOps /\ UNCHANGED <<qvars, pvars, tvars, dvars>>
  \/ ResetTotalLatency /\ UNCHANGED <<qvars, pvars, tvars, dvars>>

\* record_latency and reset called at any moment: one thread records the
\* values 500 and 1500 while another calls reset once
HistResetNext ==
  \/ /\ HistNext
     /\ h_pc'["w2"] = "idle" /\ h_ns'["w1"] \in {0, 500, 1500}
     /\ recorded' # recorded => resets = 0
  \/ resets = 0 /\ ResetCall /\ UNCHANGED <<qvars, pvars, tvars, dvars>>
  \/ ResetField /\ UNCHANGED <<qvars, pvars, tvars, dvars>>
  \/ ResetTotalOps /\ UNCHANGED <<qvars, pvars, tvars, dvars>>
  \/ ResetTotalLatency /\ UNCHANGED <<qvars, pvars, tvars, dvars>>

\* threads using the timer while the counter runs
TimerNext ==
  \/ Tick /\ UNCHANGED <<qvars, pvars, hvars, dvars>>
  \/ \E t \in TThreads : NowNsCall(t) /\ UNCHANGED <<qvars, pvars, hvars, dvars>>
  \/ \E t \in TThreads : TscToNsCall(t) /\ UNCHANGED <<qvars, pvars, hvars, dvars>>
  \/ \E t \in TThreads : TscToNsReturn(t) /\ UNCHANGED <<qvars, pvars, hvars, dvars>>
  \/ \E t \in TThreads : CalibrateCall(t) /\ UNCHANGED <<qvars, pvars, hvars, dvars>>
  \/ \E t \in TThreads : ForceRecalibrate(t) /\ UNCHANGED <<qvars, pvars, hvars, dvars>>
  \/ \E t \in TThreads : CalibrateCheck(t) /\ UNCHANGED <<qvars, pvars, hvars, dvars>>
  \/ \E t \in TThreads : CalibrateStart(t) /\ UNCHANGED <<qvars, pvars, hvars, dvars>>
  \/ \E t \in TThreads : CalibrateStore(t) /\ UNCHANGED <<qvars, pvars, hvars, dvars>>
  \/ \E t \in TThreads : CalibrateFlag(t) /\ UNCHANGED <<qvars, pvars, hvars, dvars>>
  \/ \E t \in TThreads : NowNsRdtsc(t) /\ UNCHANGED <<qvars, pvars, hvars, dvars>>
  \/ \E t \in TThreads : NowNsReturn(t) /\ UNCHANGED <<qvars, pvars, hvars, dvars>>

\* one thread calls start() and stop() in any order while the reporter runs
DashNext ==
  \/ StartStore /\ UNCHANGED <<qvars, pvars, hvars, tvars>>
  \/ StartThread /\ UNCHANGED <<qvars, pvars, hvars, tvars>>
  \/ StartAssign /\ UNCHANGED <<qvars, pvars, hvars, tvars>>
  \/ StopStore /\ UNCHANGED <<qvars, pvars, hvars, tvars>>
  \/ StopJoin /\ UNCHANGED <<qvars, pvars, hvars, tvars>>
  \/ \E k \in DOMAIN tasks : TaskCheck(k) /\ UNCHANGED <<qvars, pvars, hvars, tvars>>
  \/ \E k \in DOMAIN tasks : UpdateMetrics(k) /\ UNCHANGED <<qvars, pvars, hvars, tvars>>
  \/ \E k \in DOMAIN tasks : PublishMetrics(k) /\ UNCHANGED <<qvars, pvars, hvars, tvars>>

\* the same with start() called only while the publisher is stopped
DashAltNext ==
  \/ ~joinable /\ StartStore /\ UNCHANGED <<qvars, pvars, hvars, tvars>>
  \/ StartThread /\ UNCHANGED <<qvars, pvars, hvars, tvars>>
  \/ StartAssign /\ UNCHANGED <<qvars, pvars, hvars, tvars>>
  \/ StopStore /\ UNCHANGED <<qvars, pvars, hvars, tvars>>
  \/ StopJoin /\ UNCHANGED <<qvars, pvars, hvars, tvars>>
  \/ \E k \in DOMAIN tasks : TaskCheck(k) /\ UNCHANGED <<qvars, pvars, hvars, tvars>>
  \/ \E k \in DOMAIN tasks : UpdateMetrics(k) /\ UNCHANGED <<qvars, pvars, hvars, tvars>>
  \/ \E k \in DOMAIN tasks : PublishMetrics(k) /\ UNCHANGED <<qvars, pvars, hvars, tvars>>

\* the publisher next to the histogram: one thread records the value 500,
\* another calls reset once while no record_latency runs, and the reporter
\* ticks in between; the clock of the publisher does not go back
DashHistNext ==
  \/ /\ DashAltNext
     /\ last_report_time_' >= last_report_time_
     /\ log_counter' <= MaxCallAt
  \/ /\ r_pc = "idle"
     /\ BagSize(recorded, Lats) < MaxOrders
     /\ RecordCall("w1") /\ h_ns'["w1"] = 500
     /\ d_calls' = d_calls + 1
     /\ UNCHANGED <<qvars, pvars, tvars, dprog>>
  \/ /\ \/ BucketCount("w1") \/ BucketSum("w1")
        \/ BucketMinLoad("w1") \/ BucketMinCas("w1")
        \/ BucketMaxLoad("w1") \/ BucketMaxCas("w1")
        \/ TotalOps("w1") \/ TotalLatency("w1")
     /\ UNCHANGED <<qvars, pvars, tvars, dvars>>
  \/ /\ HQuiescent /\ resets = 0
     /\ ResetCall
     /\ UNCHANGED <<qvars, pvars, tvars, dvars>>
  \/ /\ ResetField \/ ResetTotalOps \/ ResetTotalLatency
     /\ UNCHANGED <<qvars, pvars, tvars, dvars>>

\* the steps of the reporter threads
ReporterNext ==
  /\ \E k \in DOMAIN tasks :
       TaskCheck(k) \/ UpdateMetrics(k) \/ PublishMetrics(k)
  /\ UNCHANGED <<qvars, pvars, hvars, tvars>>

\* join() returns to the caller of stop()
JoinNext == StopJoin /\ UNCHANGED <<qvars, pvars, hvars, tvars>>

\* threads using the timer, none of them calling force_recalibrate
TimerFirstNext ==
  \/ Tick /\ UNCHANGED <<qvars, pvars, hvars, dvars>>
  \/ \E t \in TThreads : NowNsCall(t) /\ UNCHANGED <<qvars, pvars, hvars, dvars>>
  \/ \E t \in TThreads : TscToNsCall(t) /\ UNCHANGED <<qvars, pvars, hvars, dvars>>
  \/ \E t \in TThreads : TscToNsReturn(t) /\ UNCHANGED <<qvars, pvars, hvars, dvars>>
  \/ \E t \in TThreads : CalibrateCall(t) /\ UNCHANGED <<qvars, pvars, hvars, dvars>>
  \/ \E t \in TThreads : CalibrateCheck(t) /\ UNCHANGED <<qvars, pvars, hvars, dvars>>
  \/ \E t \in TThreads : CalibrateStart(t) /\ UNCHANGED <<qvars, pvars, hvars, dvars>>
  \/ \E t \in TThreads : CalibrateStore(t) /\ UNCHANGED <<qvars, pvars, hvars, dvars>>
  \/ \E t \in TThreads : CalibrateFlag(t) /\ UNCHANGED <<qvars, pvars, hvars, dvars>>
  \/ \E t \in TThreads : NowNsRdtsc(t) /\ UNCHANGED <<qvars, pvars, hvars, dvars>>
  \/ \E t \in TThreads : NowNsReturn(t) /\ UNCHANGED <<qvars, pvars, hvars, dvars>>

Next == QFrameNext \/ QNext \/ PoolNext \/ HistNext \/ TimerNext \/ DashNext

Spec == Init /\ [][Next]_vars

SpecQueue == Init /\ [][QNext]_vars

SpecQueueCons == Init /\ [][QConsNext]_vars

SpecQueueFrame == Init /\ [][QFrameNext]_vars

SpecPool == Init /\ [][PoolNext]_vars

SpecPoolSeq == Init /\ [][PoolSeqNext]_vars

SpecPoolFresh == Init /\ [][PoolFreshNext]_vars

SpecHist == Init /\ [][HistNext]_vars

SpecHistSeq == Init /\ [][HistSeqNext]_vars

SpecHistReset == Init /\ [][HistResetNext]_vars

SpecTimer == Init /\ [][TimerNext]_vars

SpecTimerFirst == Init /\ [][TimerFirstNext]_vars

SpecDash == Init /\ [][DashNext]_vars

SpecDashHist == Init /\ [][DashHistNext]_vars

\* a thread that can run does run: the reporter threads and a stop() whose
\* join() can return make progress
SpecDashAlt ==
  /\ Init /\ [][DashAltNext]_vars
  /\ WF_vars(ReporterNext)
  /\ WF_vars(JoinNext)

====
